---------------------------- MODULE Spec2Model ----------------------------
(***************************************************************************)
(* Model of the Meldebestaetigung (MB Format) parser library               *)
(* (src/Meldebestaetigung.py) and of its command line front end            *)
(* (src/mbcheck.py).                                                       *)
(*                                                                         *)
(* A Python str is a sequence of one-character tokens ("A", "0", "&",      *)
(* ...).  The token "U+FF11" stands for the non-ASCII character FULLWIDTH  *)
(* DIGIT ONE.  The literal segments of an f-string are kept as single      *)
(* tokens (transliterated to ASCII), the interpolated values as their      *)
(* characters, so a message is again a sequence of tokens.  None is the    *)
(* empty tuple and a set Optional value v is <<v>>.                        *)
(***************************************************************************)
EXTENDS Integers, Sequences, FiniteSets, TLC

-----------------------------------------------------------------------------
(* Characters and the str methods the code uses *)

DigitSeq == <<"0", "1", "2", "3", "4", "5", "6", "7", "8", "9">>

UpperSeq == <<"A", "B", "C", "D", "E", "F", "G", "H", "I", "J", "K", "L", "M",
              "N", "O", "P", "Q", "R", "S", "T", "U", "V", "W", "X", "Y", "Z">>

LowerSeq == <<"a", "b", "c", "d", "e", "f", "g", "h", "i", "j", "k", "l", "m",
              "n", "o", "p", "q", "r", "s", "t", "u", "v", "w", "x", "y", "z">>

Range(f) == {f[i] : i \in DOMAIN f}

IndexOf(seq, c) == CHOOSE i \in DOMAIN seq : seq[i] = c

AsciiDigits == Range(DigitSeq)

FullwidthOne == "U+FF11"

\* characters of Unicode category Nd: what \d, str.isdigit() and int() accept
UnicodeDigits == AsciiDigits \cup {FullwidthOne}

Whitespace == {" ", "\n"}

\* ord(c)
Ord(c) ==
    IF c \in AsciiDigits THEN 47 + IndexOf(DigitSeq, c)
    ELSE IF c \in Range(UpperSeq) THEN 64 + IndexOf(UpperSeq, c)
    ELSE IF c \in Range(LowerSeq) THEN 96 + IndexOf(LowerSeq, c)
    ELSE IF c = "\n" THEN 10
    ELSE IF c = " " THEN 32
    ELSE IF c = "&" THEN 38
    ELSE IF c = "+" THEN 43
    ELSE IF c = "-" THEN 45
    ELSE IF c = "_" THEN 95
    ELSE 65297

\* the decimal value of a digit character
DigitValue(c) == IF c \in AsciiDigits THEN IndexOf(DigitSeq, c) - 1 ELSE 1

None == << >>

Some(v) == <<v>>

RECURSIVE str(_)
\* str(n) for an int n >= 0
str(n) == IF n < 10 THEN <<DigitSeq[n + 1]>>
          ELSE str(n \div 10) \o <<DigitSeq[(n % 10) + 1]>>

RECURSIVE split(_, _)
\* s.split(sep) for a one-character separator
split(s, sep) ==
    IF \A i \in DOMAIN s : s[i] # sep THEN <<s>>
    ELSE LET k == CHOOSE i \in DOMAIN s :
                      s[i] = sep /\ \A j \in 1..(i - 1) : s[j] # sep
         IN  <<SubSeq(s, 1, k - 1)>> \o split(SubSeq(s, k + 1, Len(s)), sep)

RECURSIVE join(_, _)
\* sep.join(parts) for a non-empty list
join(sep, parts) ==
    IF Len(parts) = 0 THEN << >>
    ELSE IF Len(parts) = 1 THEN parts[1]
    ELSE parts[1] \o <<sep>> \o join(sep, Tail(parts))

\* isalnum() where isdigit() is meant
isdigit_isalnum(s) ==
    Len(s) > 0 /\ \A i \in DOMAIN s :
        s[i] \in UnicodeDigits \cup Range(UpperSeq) \cup Range(LowerSeq)

\* s.isdigit()
isdigit(s) == Len(s) > 0 /\ \A i \in DOMAIN s : s[i] \in UnicodeDigits

RECURSIVE strip(_)
\* s.strip()
strip(s) ==
    IF Len(s) = 0 THEN s
    ELSE IF s[1] \in Whitespace THEN strip(Tail(s))
    ELSE IF s[Len(s)] \in Whitespace THEN strip(SubSeq(s, 1, Len(s) - 1))
    ELSE s

RECURSIVE DecimalValue(_)
DecimalValue(s) ==
    IF Len(s) = 0 THEN 0
    ELSE 10 * DecimalValue(SubSeq(s, 1, Len(s) - 1)) + DigitValue(s[Len(s)])

\* int(s): surrounding whitespace is stripped, a sign is accepted and single
\* underscores may separate digits; [ok |-> FALSE] stands for ValueError
int(s) ==
    LET t      == strip(s)
        signed == Len(t) > 0 /\ t[1] \in {"+", "-"}
        body   == IF signed THEN Tail(t) ELSE t
        digits == SelectSeq(body, LAMBDA c : c # "_")
        wellformed ==
            /\ Len(body) > 0
            /\ \A i \in DOMAIN body : body[i] \in UnicodeDigits \cup {"_"}
            /\ body[1] # "_" /\ body[Len(body)] # "_"
            /\ \A i \in 1..(Len(body) - 1) : ~(body[i] = "_" /\ body[i + 1] = "_")
    IN  IF wellformed
        THEN [ok |-> TRUE,
              value |-> IF signed /\ t[1] = "-" THEN 0 - DecimalValue(digits)
                        ELSE DecimalValue(digits)]
        ELSE [ok |-> FALSE, value |-> 0]

-----------------------------------------------------------------------------
(* Field value mappings: a dict is the sequence of its <<key, label>> items *)
(* in declaration order                                                     *)

MELDUNGSTYP ==
    << <<<<"0">>, "Erstmeldung">>, <<<<"1">>, "Follow-Up">>,
       <<<<"2">>, "Nachmeldung">>, <<<<"3">>, "Korrektur">>, <<<<"9">>, "Test">> >>

INDIKATIONSBEREICH ==
    << <<<<"O">>, "Onkologische Erkrankungen">>,
       <<<<"R">>, "Seltene Erkrankungen">>,
       <<<<"H">>, "Hereditaeres Tumorsyndrom">> >>

PRODUKTZUORDNUNG == << <<<<"9">>, "MV GenomSeq">> >>

KOSTENTRAEGER ==
    << <<<<"1">>, "GKV (Gesetzliche Krankenversicherung)">>,
       <<<<"2">>, "PKV (Private Krankenversicherung)">>,
       <<<<"3">>, "PKV/Beihilfe">>, <<<<"4">>, "Andere">> >>

ART_DER_DATEN == << <<<<"C">>, "Klinische Daten">>, <<<<"G">>, "Genomische Daten">> >>

ART_DER_SEQUENZIERUNG ==
    << <<<<"0">>, "Keine Sequenzierung">>,
       <<<<"1">>, "WGS (Whole Genome Sequencing)">>,
       <<<<"2">>, "WES (Whole Exome Sequencing)">>,
       <<<<"3">>, "Panel-Sequenzierung">>,
       <<<<"4">>, "WGS_LR (Long-Read Whole Genome Sequencing)">> >>

QUALITAETSKONTROLLE == << <<<<"0">>, "Nicht bestanden">>, <<<<"1">>, "Bestanden">> >>

\* the keys in the reverse of the declaration order
keys_reversed(d) == [i \in DOMAIN d |-> d[Len(d) + 1 - i][1]]

\* list(d.keys())
keys(d) == [i \in DOMAIN d |-> d[i][1]]

\* a membership test that lets the empty code pass
in_or_empty(key, d) == key = << >> \/ \E i \in DOMAIN d : d[i][1] = key

\* key in d
in(key, d) == \E i \in DOMAIN d : d[i][1] = key

RECURSIVE ReprItems(_)
ReprItems(l) ==
    IF Len(l) = 0 THEN << >>
    ELSE <<"'">> \o l[1] \o <<"'">>
         \o (IF Len(l) > 1 THEN <<", ">> ELSE << >>) \o ReprItems(Tail(l))

\* the text an f-string gives a list of plain str items: ['0', '1']
repr_list(l) == <<"[">> \o ReprItems(l) \o <<"]">>

-----------------------------------------------------------------------------
(* datetime.strptime(date_string, "%Y%m%d") *)

IsLeap(y) == (y % 4 = 0 /\ y % 100 # 0) \/ y % 400 = 0

DaysInMonth(y, m) ==
    IF m = 2 THEN (IF IsLeap(y) THEN 29 ELSE 28)
    ELSE IF m \in {4, 6, 9, 11} THEN 30
    ELSE 31

\* lengths of the alternatives of (?P<m>1[0-2]|0[1-9]|[1-9]) that match at
\* position p, in the order the regex engine tries them
MonthAlternatives(s, p) ==
    LET has(i) == p + i <= Len(s)
        one    == has(0) /\ s[p] \in (AsciiDigits \ {"0"})
        two    == has(1) /\ \/ (s[p] = "1" /\ s[p + 1] \in {"0", "1", "2"})
                            \/ (s[p] = "0" /\ s[p + 1] \in (AsciiDigits \ {"0"}))
    IN  (IF two THEN <<2>> ELSE << >>) \o (IF one THEN <<1>> ELSE << >>)

\* the same for (?P<d>3[0-1]|[1-2]\d|0[1-9]|[1-9]| [1-9])
DayAlternatives(s, p) ==
    LET has(i) == p + i <= Len(s)
        two    == has(1) /\ \/ (s[p] = "3" /\ s[p + 1] \in {"0", "1"})
                            \/ (s[p] \in {"1", "2"} /\ s[p + 1] \in UnicodeDigits)
                            \/ (s[p] = "0" /\ s[p + 1] \in (AsciiDigits \ {"0"}))
        one    == has(0) /\ s[p] \in (AsciiDigits \ {"0"})
        blank  == has(1) /\ s[p] = " " /\ s[p + 1] \in (AsciiDigits \ {"0"})
    IN  (IF two THEN <<2>> ELSE << >>) \o (IF one THEN <<1>> ELSE << >>)
        \o (IF blank THEN <<2>> ELSE << >>)

\* [ok |-> FALSE] stands for ValueError
strptime(date_string) ==
    LET failed == [ok |-> FALSE, year |-> 0, month |-> 0, day |-> 0]
        yearOk == Len(date_string) >= 4
                  /\ \A i \in 1..4 : date_string[i] \in UnicodeDigits
        ms     == MonthAlternatives(date_string, 5)
        \* the first month alternative after which some day alternative matches
        usable == {i \in DOMAIN ms : Len(DayAlternatives(date_string, 5 + ms[i])) > 0}
    IN  IF ~yearOk \/ usable = {} THEN failed
        ELSE LET i  == CHOOSE j \in usable : \A k \in usable : j <= k
                 ml == ms[i]
                 dl == DayAlternatives(date_string, 5 + ml)[1]
                 y  == DecimalValue(SubSeq(date_string, 1, 4))
                 m  == DecimalValue(SubSeq(date_string, 5, 4 + ml))
                 d  == DecimalValue(strip(SubSeq(date_string, 5 + ml, 4 + ml + dl)))
             IN  IF 4 + ml + dl # Len(date_string) THEN failed  \* unconverted data remains
                 ELSE IF y < 1 \/ d > DaysInMonth(y, m) THEN failed
                 ELSE [ok |-> TRUE, year |-> y, month |-> m, day |-> d]

-----------------------------------------------------------------------------
(* class Meldebestaetigung *)

FieldNames ==
    <<"alphanumerischer_code", "leistungsdatum_zaehler", "leistungserbringer_id",
      "datenknoten_id", "meldungstyp", "indikationsbereich", "produktzuordnung",
      "kostentraeger", "art_der_daten", "art_der_sequenzierung",
      "qualitaetskontrolle">>

\* the 11 dataclass fields of an instance, in declaration order
Fields(self) == [i \in 1..11 |-> self[FieldNames[i]]]

\* the fields the generated __eq__ compares: every field of the dataclass, the
\* three that __post_init__ fills included (none is declared compare=False)
CompareNames == FieldNames \o <<"_leistungsdatum", "_zaehler", "_warnings">>

\* the __eq__ that @dataclass generates: the tuples of the fields are compared
__eq__(self, other) ==
    [i \in DOMAIN CompareNames |-> self[CompareNames[i]]]
        = [i \in DOMAIN CompareNames |-> other[CompareNames[i]]]

\* the try block for a field of length 11: the date is assigned before the
\* counter is converted, so a ValueError of int() leaves the date set
TryParse(self, date, zaehler) ==
    IF ~date.ok
    THEN [self EXCEPT !._warnings =
             Append(@, <<"Ungueltiges Leistungsdatum/Zaehler Format: ">>
                       \o self.leistungsdatum_zaehler)]
    ELSE IF ~zaehler.ok
    THEN [self EXCEPT !._leistungsdatum = Some([year |-> date.year,
                                                 month |-> date.month,
                                                 day |-> date.day]),
                      !._warnings =
             Append(@, <<"Ungueltiges Leistungsdatum/Zaehler Format: ">>
                       \o self.leistungsdatum_zaehler)]
    ELSE [self EXCEPT !._leistungsdatum = Some([year |-> date.year,
                                                 month |-> date.month,
                                                 day |-> date.day]),
                      !._zaehler = Some(zaehler.value)]

_parse_leistungsdatum_zaehler(self) ==
    IF Len(self.leistungsdatum_zaehler) = 11
    THEN TryParse(self,
                  strptime(SubSeq(self.leistungsdatum_zaehler, 1, 8)),
                  int(SubSeq(self.leistungsdatum_zaehler, 9, 11)))
    ELSE self

__post_init__(self) ==
    _parse_leistungsdatum_zaehler([self EXCEPT !._warnings = << >>])

\* the generated dataclass __init__ followed by __post_init__
Meldebestaetigung(parts) ==
    __post_init__(
        [alphanumerischer_code  |-> parts[1],
         leistungsdatum_zaehler |-> parts[2],
         leistungserbringer_id  |-> parts[3],
         datenknoten_id         |-> parts[4],
         meldungstyp            |-> parts[5],
         indikationsbereich     |-> parts[6],
         produktzuordnung       |-> parts[7],
         kostentraeger          |-> parts[8],
         art_der_daten          |-> parts[9],
         art_der_sequenzierung  |-> parts[10],
         qualitaetskontrolle    |-> parts[11],
         _leistungsdatum        |-> None,
         _zaehler               |-> None,
         _warnings              |-> None])

AllowedChars == Range(LowerSeq) \cup Range(UpperSeq) \cup AsciiDigits \cup {"&"}

\* re.compile(r'^[a-zA-Z0-9&]+$').match(s): $ also matches before a final newline
allowed_pattern_match(s) ==
    LET body == IF Len(s) > 0 /\ s[Len(s)] = "\n" THEN SubSeq(s, 1, Len(s) - 1) ELSE s
    IN  Len(body) > 0 /\ \A i \in DOMAIN body : body[i] \in AllowedChars

FieldCountMessage(parts) ==
    <<"MB Format erwartet 11 Felder, aber ">> \o str(Len(parts)) \o <<" gefunden">>

LengthWarning(text, part) == <<text>> \o str(Len(part))

TableWarning(text, part, table) ==
    <<text>> \o part \o <<"'. Erlaubt: ">> \o repr_list(keys(table))

When(cond, warning) == IF cond THEN <<warning>> ELSE << >>

\* the checks of _validate_syntax after the split
ValidateParts(mb_string, parts) ==
    When(~allowed_pattern_match(mb_string),
         <<"MB String enthaelt ungueltige Zeichen. Erlaubt sind nur: [a-z][A-Z][0-9][&]">>)
    \o (IF Len(parts) # 11
        THEN <<FieldCountMessage(parts)>>
        ELSE When(Len(parts[1]) # 10,
                  LengthWarning("Alphanumerischer Code muss 10 Zeichen haben, hat aber ",
                                parts[1]))
             \o When(Len(parts[2]) # 11 \/ ~isdigit(parts[2]),
                     <<"Leistungsdatum+Zaehler muss 11 Ziffern haben (JJJJMMTTZZZ): ">>
                     \o parts[2])
             \o When(Len(parts[3]) # 9,
                     LengthWarning("Leistungserbringer-ID muss 9 Zeichen haben, hat aber ",
                                   parts[3]))
             \o When(Len(parts[4]) # 9,
                     LengthWarning("Datenknoten-ID muss 9 Zeichen haben, hat aber ",
                                   parts[4]))
             \o When(~in(parts[5], MELDUNGSTYP),
                     TableWarning("Ungueltiger Meldungstyp '", parts[5], MELDUNGSTYP))
             \o When(~in(parts[6], INDIKATIONSBEREICH),
                     TableWarning("Ungueltiger Indikationsbereich '", parts[6],
                                  INDIKATIONSBEREICH))
             \o When(~in(parts[7], PRODUKTZUORDNUNG),
                     TableWarning("Ungueltige Produktzuordnung '", parts[7],
                                  PRODUKTZUORDNUNG))
             \o When(~in(parts[8], KOSTENTRAEGER),
                     TableWarning("Ungueltiger Kostentraeger '", parts[8], KOSTENTRAEGER))
             \o When(~in(parts[9], ART_DER_DATEN),
                     TableWarning("Ungueltige Art der Daten '", parts[9], ART_DER_DATEN))
             \o When(~in(parts[10], ART_DER_SEQUENZIERUNG),
                     TableWarning("Ungueltige Art der Sequenzierung '", parts[10],
                                  ART_DER_SEQUENZIERUNG))
             \o When(~in(parts[11], QUALITAETSKONTROLLE),
                     TableWarning("Ungueltiges QK-Ergebnis '", parts[11],
                                  QUALITAETSKONTROLLE)))

_validate_syntax(mb_string) == ValidateParts(mb_string, split(mb_string, "&"))

\* warnings.warn(text, UserWarning) under the process-wide filter: with the
\* "ignore" filter of --quiet nothing is shown; that the default filter shows
\* a text once per location of the call is not followed, every text handed
\* over counts as shown
warn(warning_list, quiet) == IF quiet THEN << >> ELSE warning_list

\* a from_string whose warnings are errors unless they are filtered out
ExtendedRaising(instance, validation_warnings, quiet) ==
    IF ~quiet /\ Len(instance._warnings \o validation_warnings) > 0
    THEN [raised |-> TRUE, error |-> (instance._warnings \o validation_warnings)[1],
          instance |-> None, shown |-> << >>,
          validation_warnings |-> validation_warnings]
    ELSE [raised |-> FALSE, error |-> << >>,
          instance |-> Some([instance EXCEPT !._warnings = @ \o validation_warnings]),
          shown |-> << >>,
          validation_warnings |-> validation_warnings]

\* a from_string that puts the findings of the validation first
ExtendedValidationFirst(instance, validation_warnings, quiet) ==
    [raised |-> FALSE, error |-> << >>,
     instance |-> Some([instance EXCEPT !._warnings = validation_warnings \o @]),
     shown |-> warn(validation_warnings \o instance._warnings, quiet),
     validation_warnings |-> validation_warnings]

\* instance._warnings.extend(validation_warnings), then one warnings.warn
\* per warning, then return instance
Extended(instance, validation_warnings, quiet) ==
    [raised |-> FALSE, error |-> << >>,
     instance |-> Some([instance EXCEPT !._warnings = @ \o validation_warnings]),
     shown |-> warn(instance._warnings \o validation_warnings, quiet),
     validation_warnings |-> validation_warnings]

\* a from_string that only asks for enough fields
FromPartsAtLeast(parts, validation_warnings, quiet) ==
    IF Len(parts) < 11
    THEN [raised |-> TRUE, error |-> FieldCountMessage(parts),
          instance |-> None, shown |-> << >>,
          validation_warnings |-> validation_warnings]
    ELSE Extended(Meldebestaetigung(parts), validation_warnings, quiet)

\* from_string after its first two statements
FromParts(parts, validation_warnings, quiet) ==
    IF Len(parts) # 11
    THEN [raised |-> TRUE, error |-> FieldCountMessage(parts),
          instance |-> None, shown |-> << >>,
          validation_warnings |-> validation_warnings]
    ELSE Extended(Meldebestaetigung(parts), validation_warnings, quiet)

\* [raised |-> TRUE] stands for the ValueError of a wrong field count, whose
\* message is in error; shown are the warnings the warnings module lets through
from_string(mb_string, quiet) ==
    FromParts(split(mb_string, "&"), _validate_syntax(mb_string), quiet)

parse_mb_string(mb_string, quiet) == from_string(mb_string, quiet)

\* a to_mb_string that tidies the fields up
to_mb_string_stripped(self) == join("&", [i \in 1..11 |-> strip(Fields(self)[i])])

to_mb_string(self) == join("&", Fields(self))

\* the end of the run of non-ASCII characters that starts at position i
RECURSIVE RunEnd(_, _)
RunEnd(s, i) == IF i < Len(s) /\ Ord(s[i + 1]) > 127 THEN RunEnd(s, i + 1) ELSE i

\* where encode stops: the first non-ASCII character (1-based) and its run
Unencodable(s, i) == [start |-> i, end |-> RunEnd(s, i)]

\* s.encode('ascii'): [ok |-> FALSE] stands for UnicodeEncodeError
encode_ascii(s) ==
    IF \E i \in DOMAIN s : Ord(s[i]) > 127
    THEN [ok |-> FALSE, bytes |-> << >>,
          at |-> Unencodable(s, CHOOSE i \in DOMAIN s :
                                    /\ Ord(s[i]) > 127
                                    /\ \A j \in 1..(i - 1) : Ord(s[j]) <= 127)]
    ELSE [ok |-> TRUE, bytes |-> [i \in DOMAIN s |-> Ord(s[i])],
          at |-> [start |-> 0, end |-> 0]]

\* str() of the UnicodeEncodeError, with 0-based positions
UnicodeEncodeErrorMessage(at) ==
    IF at.start = at.end
    THEN <<"'ascii' codec can't encode character '\\uff11' in position ">>
         \o str(at.start - 1) \o <<": ordinal not in range(128)">>
    ELSE <<"'ascii' codec can't encode characters in position ">>
         \o str(at.start - 1) \o <<"-">> \o str(at.end - 1)
         \o <<": ordinal not in range(128)">>

HexDigits ==
    <<"0", "1", "2", "3", "4", "5", "6", "7", "8", "9", "a", "b", "c", "d", "e", "f">>

RECURSIVE hexlify(_)
hexlify(bytes) ==
    IF Len(bytes) = 0 THEN << >>
    ELSE <<HexDigits[(bytes[1] \div 16) + 1], HexDigits[(bytes[1] % 16) + 1]>>
         \o hexlify(Tail(bytes))

\* hashlib.sha256(data).hexdigest(), as the ideal hash of the byte string: two
\* digests are equal exactly when the byte strings are
sha256_hexdigest(bytes) == <<"sha256:">> \o hexlify(bytes)

\* what a call gives: the value it returns, or the exception it raises with
\* its class and its str()
Return(value) == [raised |-> FALSE, type |-> "", value |-> value]

Raise(type, message) == [raised |-> TRUE, type |-> type, value |-> message]

\* hexdigest() of the encoded MB string, or the UnicodeEncodeError (a
\* ValueError) of encode for a non-ASCII character
Digest(data) ==
    IF data.ok
    THEN Return(sha256_hexdigest(data.bytes))
    ELSE Raise("UnicodeEncodeError", UnicodeEncodeErrorMessage(data.at))

\* a hash that also covers the findings
compute_hash_with_findings(self) ==
    Digest(encode_ascii(to_mb_string(self) \o str(Len(self._warnings))))

compute_hash(self) == Digest(encode_ascii(to_mb_string(self)))

-----------------------------------------------------------------------------
(* The exports: to_dict, to_json and __repr__                               *)

\* s.zfill(width), the padding of %m, %d and of the format 03d
zfill(s, width) == [i \in 1..(width - Len(s)) |-> "0"] \o s

\* str(n) for any int n, which is also what json.dumps gives it
repr_int(n) == IF n < 0 THEN <<"-">> \o str(0 - n) ELSE str(n)

\* f"{n:03d}": the sign counts for the width
format_03d(n) == IF n < 0 THEN <<"-">> \o zfill(str(0 - n), 2) ELSE zfill(str(n), 3)

\* one directive or literal character of a strftime format; %Y is not padded
\* by the C library
Directive(date, d) ==
    IF d = "%Y" THEN str(date.year)
    ELSE IF d = "%m" THEN zfill(str(date.month), 2)
    ELSE IF d = "%d" THEN zfill(str(date.day), 2)
    ELSE <<d>>

RECURSIVE strftime(_, _)
\* date.strftime(format), the format given as its directives and literals
strftime(date, format) ==
    IF Len(format) = 0 THEN << >>
    ELSE Directive(date, format[1]) \o strftime(date, Tail(format))

\* d.get(key, default)
get(d, key, default) ==
    IF in(key, d) THEN d[CHOOSE i \in DOMAIN d : d[i][1] = key][2] ELSE default

\* the Python values a dict for json.dumps holds; a dict is the sequence of
\* its <<key, value>> items in insertion order
JStr(s) == [kind |-> "str", text |-> s, items |-> << >>]

JNone == [kind |-> "None", text |-> << >>, items |-> << >>]

JInt(n) == [kind |-> "int", text |-> repr_int(n), items |-> << >>]

JBool(b) ==
    [kind |-> "bool", text |-> IF b THEN <<"True">> ELSE <<"False">>, items |-> << >>]

JDict(items) == [kind |-> "dict", text |-> << >>, items |-> items]

\* {"code": code, "bezeichnung": table.get(code, "Unbekannt")}
Coded(code, table) ==
    JDict(<< <<"code", JStr(code)>>,
             <<"bezeichnung", JStr(<<get(table, code, "Unbekannt")>>)>> >>)

\* the dict literal of to_dict, whose last item calls compute_hash
DictLiteral(self, hash) ==
    IF hash.raised THEN [raised |-> TRUE, type |-> hash.type, value |-> hash.value,
                         items |-> << >>]
    ELSE [raised |-> FALSE, type |-> "", value |-> << >>,
          items |->
            << <<"alphanumerischer_code", JStr(self.alphanumerischer_code)>>,
               <<"leistungsdatum",
                 IF self._leistungsdatum # None
                 THEN JStr(strftime(self._leistungsdatum[1],
                                    <<"%Y", "-", "%m", "-", "%d">>))
                 ELSE JNone>>,
               <<"zaehler",
                 IF self._zaehler # None THEN JInt(self._zaehler[1]) ELSE JNone>>,
               <<"leistungserbringer_id", JStr(self.leistungserbringer_id)>>,
               <<"datenknoten_id", JStr(self.datenknoten_id)>>,
               <<"meldungstyp", Coded(self.meldungstyp, MELDUNGSTYP)>>,
               <<"indikationsbereich",
                 Coded(self.indikationsbereich, INDIKATIONSBEREICH)>>,
               <<"produktzuordnung", Coded(self.produktzuordnung, PRODUKTZUORDNUNG)>>,
               <<"kostentraeger", Coded(self.kostentraeger, KOSTENTRAEGER)>>,
               <<"art_der_daten", Coded(self.art_der_daten, ART_DER_DATEN)>>,
               <<"art_der_sequenzierung",
                 Coded(self.art_der_sequenzierung, ART_DER_SEQUENZIERUNG)>>,
               <<"qualitaetskontrolle",
                 Coded(self.qualitaetskontrolle, QUALITAETSKONTROLLE)>>,
               <<"mb_string", JStr(to_mb_string(self))>>,
               <<"hash", JStr(hash.value)>> >>]

to_dict(self) == DictLiteral(self, compute_hash(self))

\* the escape json.dumps gives a character of a str with ensure_ascii=False
EscapeChar(c) ==
    IF c = "\n" THEN "\\n"
    ELSE IF c = "\"" THEN "\\\""
    ELSE IF c = "\\" THEN "\\\\"
    ELSE c

\* the line break and indentation before an item at a nesting level
Newline(indent, level) ==
    IF indent = None THEN << >>
    ELSE <<"\n">> \o [i \in 1..(indent[1] * level) |-> " "]

RECURSIVE dumps(_, _, _)
RECURSIVE DumpItems(_, _, _)
DumpItems(items, indent, level) ==
    IF Len(items) = 0 THEN << >>
    ELSE Newline(indent, level)
         \o <<"\"", items[1][1], "\"", ": ">>
         \o dumps(items[1][2], indent, level)
         \o (IF Len(items) = 1 THEN << >>
             ELSE IF indent = None THEN <<", ">> ELSE <<",">>)
         \o DumpItems(Tail(items), indent, level)

\* the text of obj at a nesting level
dumps(obj, indent, level) ==
    IF obj.kind = "str"
    THEN <<"\"">> \o [i \in DOMAIN obj.text |-> EscapeChar(obj.text[i])] \o <<"\"">>
    ELSE IF obj.kind = "None" THEN <<"null">>
    ELSE IF obj.kind = "int" THEN obj.text
    ELSE IF obj.kind = "bool"
    THEN (IF obj.text = <<"True">> THEN <<"true">> ELSE <<"false">>)
    ELSE IF Len(obj.items) = 0 THEN <<"{}">>
    ELSE <<"{">> \o DumpItems(obj.items, indent, level + 1)
         \o Newline(indent, level) \o <<"}">>

\* json.dumps(data, indent=indent, ensure_ascii=False) for a dict data
json_dumps(data, indent) == dumps(JDict(data), indent, 0)

\* json.dumps of what to_dict gave, or the exception of to_dict
Dumped(data, indent) ==
    IF data.raised THEN Raise(data.type, data.value)
    ELSE Return(json_dumps(data.items, indent))

to_json(self, indent) == Dumped(to_dict(self), indent)

\* "=" * 60 and "-" * 60 for the box-drawing characters of the rules
Rule(c) == [i \in 1..60 |-> c]

\* the table line of __repr__: label, name of the code, code in brackets
ReprCoded(label, code, table) ==
    <<label, get(table, code, "Unbekannt"), " (">> \o code \o <<")">>

\* the lines of __repr__ once the date and the counter are formatted
ReprLines(self, date_lines, hash) ==
    << Rule("U+2550"),
       <<"MELDEBESTAETIGUNG (MV GenomSeq)">>,
       Rule("U+2550"),
       << >>,
       <<"Alphanumerischer Code:    ">> \o self.alphanumerischer_code >>
    \o date_lines
    \o << <<"Leistungserbringer-ID:    ">> \o self.leistungserbringer_id,
          <<"Datenknoten-ID:           ">> \o self.datenknoten_id,
          << >>,
          ReprCoded("Meldungstyp:              ", self.meldungstyp, MELDUNGSTYP),
          ReprCoded("Indikationsbereich:       ", self.indikationsbereich,
                    INDIKATIONSBEREICH),
          ReprCoded("Produktzuordnung:         ", self.produktzuordnung,
                    PRODUKTZUORDNUNG),
          ReprCoded("Kostentraeger:             ", self.kostentraeger, KOSTENTRAEGER),
          ReprCoded("Art der Daten:            ", self.art_der_daten, ART_DER_DATEN),
          ReprCoded("Art der Sequenzierung:    ", self.art_der_sequenzierung,
                    ART_DER_SEQUENZIERUNG),
          ReprCoded("Qualitaetskontrolle:       ", self.qualitaetskontrolle,
                    QUALITAETSKONTROLLE),
          << >>,
          Rule("U+2500"),
          <<"MB-String: ">> \o to_mb_string(self),
          <<"SHA256:    ">> \o hash.value,
          Rule("U+2550") >>

\* __repr__ with the outcome of its compute_hash call: formatting an unset
\* counter with 03d raises TypeError before the hash is computed
Repr(self, hash) ==
    IF self._leistungsdatum # None /\ self._zaehler = None
    THEN Raise("TypeError",
               <<"unsupported format string passed to NoneType.__format__">>)
    ELSE IF hash.raised THEN hash
    ELSE Return(join("\n",
           ReprLines(self,
                     IF self._leistungsdatum # None
                     THEN << <<"Leistungsdatum:           ">>
                             \o strftime(self._leistungsdatum[1],
                                         <<"%d", ".", "%m", ".", "%Y">>),
                             <<"Zaehler:                   ">>
                             \o format_03d(self._zaehler[1]) >>
                     ELSE << <<"Leistungsdatum+Zaehler:    ">>
                             \o self.leistungsdatum_zaehler >>,
                     hash)))

__repr__(self) == Repr(self, compute_hash(self))

\* the property returning the list of the instance itself
warnings_without_copy(self) == [list |-> self._warnings, aliased |-> TRUE]

\* the warnings property: a new list with the findings; aliased says whether
\* the list returned is the list object the instance holds
warnings(self) ==
    [list |-> IF self._warnings # << >> THEN self._warnings ELSE << >>,
     aliased |-> FALSE]

-----------------------------------------------------------------------------
(* The envelope parser, which mbcheck.py imports but the module does not    *)
(* define. It is taken from the format description: an envelope frames one  *)
(* embedded MB string and optionally one hash token. mbcheck.py gives the   *)
(* opening of the framing, "IBE+"; what sets the hash token off from the    *)
(* record is not in the source and is kept as one opaque token.             *)

EnvelopeMark == "IBE+"

HashMark == "<hash>"

\* EdifactResult(meldebestaetigung, embedded_hash) for a parsed record, or
\* the error of the record parser unchanged
EdifactResult(r, embedded_hash) ==
    IF r.raised
    THEN [raised |-> TRUE, type |-> "ValueError", value |-> r.error,
          meldebestaetigung |-> None, embedded_hash |-> None, shown |-> << >>]
    ELSE [raised |-> FALSE, type |-> "", value |-> << >>,
          meldebestaetigung |-> r.instance, embedded_hash |-> embedded_hash,
          shown |-> r.shown]

\* the record and the hash token located in the body of an envelope
Located(parts, quiet) ==
    EdifactResult(parse_mb_string(parts[1], quiet),
                  IF Len(parts) > 1 THEN Some(parts[2]) ELSE None)

\* without the framing nothing is handed to the record parser
parse_edifact_string(edifact_string, quiet) ==
    IF Len(edifact_string) = 0 \/ edifact_string[1] # EnvelopeMark
    THEN [raised |-> TRUE, type |-> "EnvelopeError",
          value |-> <<"EnvelopeError">>,
          meldebestaetigung |-> None, embedded_hash |-> None, shown |-> << >>]
    ELSE Located(split(Tail(edifact_string), HashMark), quiet)

-----------------------------------------------------------------------------
(* mbcheck.py                                                               *)

\* issubclass(type, ValueError); the class of the error of the envelope
\* parser is not in the source, so either answer is possible for it
IsValueError(type, envelope_error_is_value_error) ==
    \/ type \in {"ValueError", "UnicodeEncodeError"}
    \/ type = "EnvelopeError" /\ envelope_error_is_value_error

\* the truth value of an Optional[str]
Truthy(optional_str) == optional_str # None /\ Len(optional_str[1]) > 0

\* the result dict: 'input' and 'success', and 'output' or 'error' if set
Result(input, r, envelope_error_is_value_error) ==
    IF ~r.raised
    THEN [input |-> input, success |-> TRUE, output |-> Some(r.value), error |-> None]
    ELSE IF IsValueError(r.type, envelope_error_is_value_error)
    THEN [input |-> input, success |-> FALSE, output |-> None, error |-> Some(r.value)]
    ELSE [input |-> input, success |-> FALSE, output |-> None,
          error |-> Some(<<"Unerwarteter Fehler: ">> \o r.value)]

\* the output of process_mb_string for a parsed mb
Output(mb, args) ==
    IF args.hash THEN compute_hash(mb)
    ELSE IF args.text THEN __repr__(mb)
    ELSE to_json(mb, IF args.compact THEN None ELSE Some(2))

\* the try block of process_mb_string after parse_mb_string
Processed(mb_string, args, r) ==
    [result |-> IF r.raised THEN Result(mb_string, Raise("ValueError", r.error), FALSE)
                ELSE Result(mb_string, Output(r.instance[1], args), FALSE),
     shown |-> r.shown]

process_mb_string(mb_string, args, quiet) ==
    Processed(mb_string, args, parse_mb_string(mb_string, quiet))

\* hash info that is written whether or not a hash is embedded
hash_info_always(data, embedded_hash, hash) ==
    data \o << <<"embedded_hash",
                 IF embedded_hash # None THEN JStr(embedded_hash[1]) ELSE JNone>>,
               <<"hash_valid", JBool(embedded_hash = Some(hash))>> >>

\* if edifact_result.embedded_hash: data["embedded_hash"] = ...;
\* data["hash_valid"] = (edifact_result.embedded_hash == mb.compute_hash())
hash_info(data, embedded_hash, hash) ==
    IF Truthy(embedded_hash)
    THEN data \o << <<"embedded_hash", JStr(embedded_hash[1])>>,
                    <<"hash_valid", JBool(embedded_hash[1] = hash)>> >>
    ELSE data

\* the JSON branch of process_edifact_string, given what to_dict and the
\* second compute_hash call give
JsonOutput(data, embedded_hash, hash, indent) ==
    IF data.raised THEN Raise(data.type, data.value)
    ELSE IF Truthy(embedded_hash) /\ hash.raised THEN hash
    ELSE Return(json_dumps(hash_info(data.items, embedded_hash, hash.value), indent))

\* the output of process_edifact_string for a parsed envelope
EdifactOutput(mb, embedded_hash, args) ==
    IF args.hash THEN compute_hash(mb)
    ELSE IF args.text THEN __repr__(mb)
    ELSE JsonOutput(to_dict(mb), embedded_hash, compute_hash(mb),
                    IF args.compact THEN None ELSE Some(2))

\* the try block of process_edifact_string after parse_edifact_string
EdifactProcessed(edifact_string, args, edifact_result, envelope_error_is_value_error) ==
    [result |-> IF edifact_result.raised
                THEN Result(edifact_string,
                            Raise(edifact_result.type, edifact_result.value),
                            envelope_error_is_value_error)
                ELSE Result(edifact_string,
                            EdifactOutput(edifact_result.meldebestaetigung[1],
                                          edifact_result.embedded_hash, args),
                            envelope_error_is_value_error),
     shown |-> edifact_result.shown]

process_edifact_string(edifact_string, args, quiet, envelope_error_is_value_error) ==
    EdifactProcessed(edifact_string, args, parse_edifact_string(edifact_string, quiet),
                     envelope_error_is_value_error)

\* the last index of name in fieldnames, 0 if there is none: the entry of
\* the dict a DictReader builds for a row that a later equal name overwrites
LastIndex(fieldnames, name) ==
    IF \E i \in DOMAIN fieldnames : fieldnames[i] = name
    THEN CHOOSE i \in DOMAIN fieldnames :
             /\ fieldnames[i] = name
             /\ \A j \in DOMAIN fieldnames : fieldnames[j] = name => j <= i
    ELSE 0

\* result["row"] = row_num; result["tan"] = tan; results.append(result)
RowResult(r, row_num, tan) ==
    [input |-> r.result.input, success |-> r.result.success,
     output |-> r.result.output, error |-> r.result.error,
     row |-> row_num, tan |-> tan]

\* what process_csv_file gives: the list it returns, or the exception it
\* raises, which leaves no list
Results(results) == [raised |-> FALSE, type |-> "", value |-> << >>, results |-> results]

NoResults(type, message) ==
    [raised |-> TRUE, type |-> type, value |-> message, results |-> << >>]

RECURSIVE DictRows(_, _, _, _, _, _)
\* for row_num, row in enumerate(reader, start=2) over a DictReader: rows
\* without cells are skipped uncounted, a cell the row is too short for is
\* None, and None.strip() raises AttributeError
DictRows(rows, row_num, col, tan_col, env, results) ==
    IF Len(rows) = 0 THEN Results(results)
    ELSE IF Len(rows[1]) = 0
    THEN DictRows(Tail(rows), row_num, col, tan_col, env, results)
    ELSE IF Len(rows[1]) < col
    THEN NoResults("AttributeError",
                   <<"'NoneType' object has no attribute 'strip'">>)
    ELSE IF Len(strip(rows[1][col])) = 0
    THEN DictRows(Tail(rows), row_num + 1, col, tan_col, env, results)
    ELSE IF tan_col > 0 /\ Len(rows[1]) < tan_col
    THEN NoResults("AttributeError",
                   <<"'NoneType' object has no attribute 'strip'">>)
    ELSE DictRows(Tail(rows), row_num + 1, col, tan_col, env,
                  Append(results,
                         RowResult(process_edifact_string(
                                       strip(rows[1][col]), env.args, env.quiet,
                                       env.envelope_error_is_value_error),
                                   row_num,
                                   IF tan_col > 0 THEN Some(strip(rows[1][tan_col]))
                                   ELSE None)))

RECURSIVE ListRows(_, _, _, _, _, _)
\* for row_num, row in enumerate(reader, start=1) over a csv.reader
ListRows(rows, row_num, col_idx, tan_col_idx, env, results) ==
    IF Len(rows) = 0 THEN Results(results)
    ELSE IF Len(rows[1]) > col_idx /\ Len(strip(rows[1][col_idx + 1])) > 0
    THEN ListRows(Tail(rows), row_num + 1, col_idx, tan_col_idx, env,
                  Append(results,
                         RowResult(process_edifact_string(
                                       strip(rows[1][col_idx + 1]), env.args, env.quiet,
                                       env.envelope_error_is_value_error),
                                   row_num,
                                   IF Len(rows[1]) > tan_col_idx
                                   THEN Some(strip(rows[1][tan_col_idx + 1]))
                                   ELSE None)))
    ELSE ListRows(Tail(rows), row_num + 1, col_idx, tan_col_idx, env, results)

\* the header branch of process_csv_file once reader.fieldnames is read: the
\* MB column by name or else by number, the TAN column by name or else by
\* number or else none
HeaderBranch(fieldnames, rows, column_name, column_number, tan_column_name, tan_column_number, env) ==
    IF Len(fieldnames) = 0
    THEN NoResults("ValueError", <<"CSV-Datei hat keine Spalten">>)
    ELSE IF LastIndex(fieldnames, column_name) = 0 /\ column_number > Len(fieldnames)
    THEN NoResults("ValueError",
                   <<"Spalte '">> \o column_name
                   \o <<"' nicht gefunden und Spalte ">> \o repr_int(column_number)
                   \o <<" existiert nicht (nur ">> \o str(Len(fieldnames))
                   \o <<" Spalten vorhanden)">>)
    ELSE DictRows(rows, 2,
                  IF LastIndex(fieldnames, column_name) > 0
                  THEN LastIndex(fieldnames, column_name)
                  ELSE LastIndex(fieldnames, fieldnames[column_number]),
                  IF LastIndex(fieldnames, tan_column_name) > 0
                  THEN (IF Len(tan_column_name) > 0
                        THEN LastIndex(fieldnames, tan_column_name) ELSE 0)
                  ELSE IF tan_column_number <= Len(fieldnames)
                  THEN (IF Len(fieldnames[tan_column_number]) > 0
                        THEN LastIndex(fieldnames, fieldnames[tan_column_number])
                        ELSE 0)
                  ELSE 0,
                  env, << >>)

\* a file is what open() and the csv module make of it: whether it exists,
\* the verdict of csv.Sniffer().has_header on its first 4096 characters, and
\* its lines as lists of cells
process_csv_file(file, column_name, column_number, tan_column_name, tan_column_number, env) ==
    IF ~file.exists
    THEN NoResults("FileNotFoundError",
                   <<"[Errno 2] No such file or directory: '">> \o file.path \o <<"'">>)
    ELSE IF file.has_header
    THEN HeaderBranch(IF Len(file.lines) > 0 THEN file.lines[1] ELSE << >>,
                      IF Len(file.lines) > 0 THEN Tail(file.lines) ELSE << >>,
                      column_name, column_number, tan_column_name,
                      tan_column_number, env)
    ELSE ListRows(file.lines, 1, column_number - 1, tan_column_number - 1, env, << >>)

DEFAULT_COLUMN_NAME == <<"Meldebestaetigung">>

DEFAULT_COLUMN_NUMBER == 2

DEFAULT_TAN_COLUMN_NAME == <<"Vorgangsnummer">>

DEFAULT_TAN_COLUMN_NUMBER == 1

\* what a run of main leaves: the exit status, the arguments of the print
\* calls on each stream in order, and the list process_csv_file returned
Exit(exit_code, stdout, stderr, results) ==
    [exit_code |-> exit_code, stdout |-> stdout, stderr |-> stderr,
     results |-> results]

\* parser.error(message): the message on stderr and exit status 2
ParserError(message) == Exit(2, << >>, << <<"error: ", message>> >>, << >>)

\* f" [TAN: {result['tan']}]" if result.get("tan") else ""
TanInfo(tan) == IF Truthy(tan) THEN <<" [TAN: ">> \o tan[1] \o <<"]">> ELSE << >>

RECURSIVE PrintedOut(_)
\* the print calls on stdout of the loop over the results
PrintedOut(results) ==
    IF Len(results) = 0 THEN << >>
    ELSE (IF results[1].success
          THEN << <<"--- Zeile ">> \o repr_int(results[1].row)
                      \o TanInfo(results[1].tan) \o <<" ---">>,
                  results[1].output[1],
                  << >> >>
          ELSE << >>)
         \o PrintedOut(Tail(results))

RECURSIVE PrintedErr(_)
\* the print calls on stderr of the loop over the results
PrintedErr(results) ==
    IF Len(results) = 0 THEN << >>
    ELSE (IF results[1].success THEN << >>
          ELSE << <<"--- Zeile ">> \o repr_int(results[1].row) \o <<" (Fehler) ---">>,
                  <<"Eingabe: ">> \o results[1].input,
                  <<"Fehler: ">> \o results[1].error[1],
                  << >> >>)
         \o PrintedErr(Tail(results))

\* sum(1 for r in results if r["success"])
success_count(results) == Cardinality({i \in DOMAIN results : results[i].success})

\* the summary line
Summary(results) ==
    <<"Verarbeitet: ">> \o str(Len(results)) \o <<" Eintraege, ">>
    \o str(success_count(results)) \o <<" erfolgreich, ">>
    \o str(Len(results) - success_count(results)) \o <<" Fehler">>

\* the CSV branch of main, given what process_csv_file gave
CsvBranch(args, r) ==
    IF r.raised
    THEN Exit(1, << >>,
              << IF r.type = "FileNotFoundError"
                 THEN <<"Fehler: CSV-Datei nicht gefunden: ">> \o args.csv[1].path
                 ELSE IF IsValueError(r.type, FALSE)
                 THEN <<"Fehler: ">> \o r.value
                 ELSE <<"Unerwarteter Fehler: ">> \o r.value >>,
              << >>)
    ELSE Exit(IF Len(r.results) - success_count(r.results) > 0 THEN 1 ELSE 0,
              PrintedOut(r.results),
              PrintedErr(r.results) \o <<Summary(r.results)>>,
              r.results)

\* what the single-string branch prints for what the try block gave
StringPrinted(o) ==
    IF ~o.raised THEN Exit(0, <<o.value>>, << >>, << >>)
    ELSE IF IsValueError(o.type, FALSE)
    THEN Exit(1, << >>, << <<"Fehler: ">> \o o.value >>, << >>)
    ELSE Exit(1, << >>, << <<"Unerwarteter Fehler: ">> \o o.value >>, << >>)

\* the single-string branch of main, given what parse_mb_string gave
StringBranch(args, r) ==
    IF r.raised THEN StringPrinted(Raise("ValueError", r.error))
    ELSE StringPrinted(Output(r.instance[1], args))

\* main() for the namespace args that parse_args gave, in a process whose
\* warnings filter is quiet
main(args, quiet, envelope_error_is_value_error) ==
    IF args.csv = None /\ args.mb_string = None
    THEN ParserError("Entweder MB-String als Argument oder --csv DATEI angeben")
    ELSE IF args.csv # None /\ args.mb_string # None
    THEN ParserError("Nicht beide: MB-String und --csv DATEI angeben")
    ELSE IF args.column_number < 1
    THEN ParserError("Spaltennummer muss >= 1 sein")
    ELSE IF args.tan_column_number < 1
    THEN ParserError("TAN-Spaltennummer muss >= 1 sein")
    ELSE IF args.csv # None
    THEN CsvBranch(args,
                   process_csv_file(args.csv[1], args.column, args.column_number,
                                    args.tan_column, args.tan_column_number,
                                    [args |-> args, quiet |-> quiet \/ args.quiet,
                                     envelope_error_is_value_error
                                         |-> envelope_error_is_value_error]))
    ELSE StringBranch(args, parse_mb_string(args.mb_string[1], quiet \/ args.quiet))

-----------------------------------------------------------------------------
(* The inputs: the example of the command line help, with one or two of    *)
(* its fields replaced, and strings with another number of fields          *)

\* "A123456789&20240701001&260530103&KDKK00001&0&O&9&1&C&2&1"
ExampleParts ==
    << <<"A", "1", "2", "3", "4", "5", "6", "7", "8", "9">>,
       <<"2", "0", "2", "4", "0", "7", "0", "1", "0", "0", "1">>,
       <<"2", "6", "0", "5", "3", "0", "1", "0", "3">>,
       <<"K", "D", "K", "K", "0", "0", "0", "0", "1">>,
       <<"0">>, <<"O">>, <<"9">>, <<"1">>, <<"C">>, <<"2">>, <<"1">> >>

Example == join("&", ExampleParts)

\* other values of each field, valid ones and invalid ones
Alternatives ==
    << { << >>,
         <<"A", "1", "2">>,
         <<"A", "1", "2", "3", "4", "5", "6", "7", "8", "+">> },
       { <<"2", "0", "2", "4", "0", "7", "0", "X", "0", "0", "1">>,
         <<"2", "0", "2", "4", "1", "3", "9", "9", "0", "0", "1">>,
         <<"2", "0", "2", "3", "0", "2", "2", "9", "0", "0", "1">>,
         <<"2", "0", "2", "4", "0", "2", "2", "9", "9", "9", "9">>,
         <<"2", "0", "2", "4", "0", "7", "0", "1", "X", "0", "1">>,
         <<"2", "0", "2", "4", "0", "7", "0", "1", "+", "0", "1">>,
         <<"2", "0", "2", "4", "0", "7", " ", "1", "0", "0", "1">>,
         <<"2", "0", "2", "4", "0", "7", "0", "1", "0", "0", FullwidthOne>>,
         <<"2", "0", "2", "4", "0", "7", "0", "1", "0", "0">>,
         <<"2", "0", "2", "4", "X">>,
         << >> },
       { <<"2", "6", "0", "5", "3">> },
       { << >>,
         <<"K", "D", "K", "K", "0", "0", "0", "0", FullwidthOne>> },
       { <<"9">>, <<"4">>, << >>, <<"A", "B">>, <<"+">> },
       { <<"R">>, <<"X">> },
       { <<"1">> },
       { <<"5">> },
       { <<"X">> },
       { <<"7">> },
       { <<"2">>, <<"1", "\n">> } >>

OneReplaced ==
    UNION {{[ExampleParts EXCEPT ![i] = a] : a \in Alternatives[i]} : i \in 1..11}

TwoReplaced ==
    UNION {{[p EXCEPT ![i] = a] : a \in Alternatives[i]} :
           <<p, i>> \in OneReplaced \X (1..11)}

PartLists == {ExampleParts} \cup OneReplaced \cup TwoReplaced

\* strings that do not split into 11 fields
WrongCount ==
    { << >>,
      <<"&", "&", "&">>,
      join("&", SubSeq(ExampleParts, 1, 10)),
      join("&", ExampleParts \o << <<"1">> >>),
      join("&", SubSeq([ExampleParts EXCEPT ![2] = <<"2", "0", "2", "4", "X">>], 1, 10)),
      join("&", [ExampleParts EXCEPT ![5] = <<"+">>] \o << << >> >>) }

Inputs == {join("&", p) : p \in PartLists} \cup WrongCount

\* the field lists a caller hands to the dataclass constructor directly
DirectPartLists == {ExampleParts} \cup OneReplaced

\* the few inputs of the specification with several live instances
SharedInputs ==
    { Example,
      join("&", [ExampleParts EXCEPT
                    ![1] = <<"A", "1", "2">>,
                    ![2] = <<"2", "0", "2", "4", "0", "7", "0", "X", "0", "0", "1">>,
                    ![5] = <<"+">>]),
      join("&", [ExampleParts EXCEPT ![2] = <<"2", "0", "2", "4", "0", "7", "0", "X", "0", "0", "1">>]),
      join("&", [ExampleParts EXCEPT ![4] = <<"K", "D", "K", "K", "0", "0", "0", "0", FullwidthOne>>]),
      join("&", SubSeq(ExampleParts, 1, 10)) }

SharedPartLists ==
    { ExampleParts,
      [ExampleParts EXCEPT ![2] = <<"2", "0", "2", "4", "0", "7", "0", "X", "0", "0", "1">>] }

\* the MB strings given to process_mb_string and embedded in envelopes
RecordStrings ==
    { Example,
      join("&", [ExampleParts EXCEPT ![2] = <<"2", "0", "2", "4", "0", "7", "0", "1", "X", "0", "1">>]),
      join("&", [ExampleParts EXCEPT ![2] = <<"2", "0", "2", "4", "0", "7", "0", "1", "-", "0", "1">>]),
      join("&", [ExampleParts EXCEPT ![2] = <<"2", "0", "2", "4", "X">>]),
      join("&", [ExampleParts EXCEPT ![4] = <<"K", "D", "K", "K", "0", "0", "0", "0", FullwidthOne>>]),
      join("&", [ExampleParts EXCEPT ![5] = <<"4">>]),
      join("&", [ExampleParts EXCEPT ![11] = <<"1", "\n">>]),
      join("&", SubSeq(ExampleParts, 1, 10)) }

\* the hash tokens an envelope may carry: the hashes of the ASCII strings
HashTokens ==
    { sha256_hexdigest(encode_ascii(s).bytes) : s \in {t \in RecordStrings : encode_ascii(t).ok} }

\* the string of an envelope, or with framed = FALSE the same without the
\* opening of the framing
Envelope(framed, mb_string, embedded_hash) ==
    (IF framed THEN <<EnvelopeMark>> ELSE << >>)
    \o mb_string
    \o (IF embedded_hash # None THEN <<HashMark>> \o embedded_hash[1] ELSE << >>)

\* the strings given to process_edifact_string
Envelopes ==
    { Envelope(framed, mb_string, embedded_hash) :
          framed \in BOOLEAN, mb_string \in RecordStrings,
          embedded_hash \in {None} \cup {Some(h) : h \in HashTokens} }

\* the namespaces parse_args gives; --json, --text and --hash exclude each other
Args ==
    {a \in [hash : BOOLEAN, text : BOOLEAN, json : BOOLEAN, compact : BOOLEAN] :
        Cardinality({f \in {"hash", "text", "json"} : a[f]}) <= 1}

\* the cells of the CSV files
Tan == <<"T", "1">>

EnvelopeCell == Envelope(TRUE, Example, None)

ShortRecordCell == Envelope(TRUE, join("&", SubSeq(ExampleParts, 1, 10)), None)

\* the lines of the files after the header, if any
RowKinds ==
    { <<Tan, EnvelopeCell>>,
      <<Tan, ShortRecordCell>>,
      <<Tan, <<" ">> >>,
      <<EnvelopeCell, Tan>>,
      <<EnvelopeCell>>,
      << >> }

MaxRows == 3

RECURSIVE RowLists(_)
\* the lists of at most n lines
RowLists(n) ==
    IF n = 0 THEN {<< >>}
    ELSE RowLists(n - 1)
         \cup {Append(rows, row) : rows \in {l \in RowLists(n - 1) : Len(l) = n - 1},
                                   row \in RowKinds}

Headers ==
    { << >>,
      << <<DEFAULT_TAN_COLUMN_NAME, DEFAULT_COLUMN_NAME>> >>,
      << <<DEFAULT_COLUMN_NAME, DEFAULT_TAN_COLUMN_NAME>> >>,
      << << <<"TAN">>, <<"MB">> >> >> }

\* the files: has_header found a header only if the first line has cells
Files ==
    { f \in [exists : {TRUE}, path : {<<"meldungen.csv">>}, has_header : BOOLEAN,
             lines : {header \o rows : header \in Headers, rows \in RowLists(MaxRows)}] :
          f.has_header => (Len(f.lines) > 0 /\ Len(f.lines[1]) > 0) }
    \cup {[exists |-> FALSE, path |-> <<"meldungen.csv">>, has_header |-> FALSE,
           lines |-> << >>]}

\* main's namespace for an input source and an output format
Namespace(mb_string, csv, column_number, format, quiet) ==
    [mb_string |-> mb_string, csv |-> csv,
     column |-> DEFAULT_COLUMN_NAME, column_number |-> column_number,
     tan_column |-> DEFAULT_TAN_COLUMN_NAME,
     tan_column_number |-> DEFAULT_TAN_COLUMN_NUMBER,
     json |-> format = "json", text |-> format = "text", hash |-> format = "hash",
     compact |-> FALSE, quiet |-> quiet]

NoFile == [exists |-> FALSE, path |-> << >>, has_header |-> FALSE, lines |-> << >>]

\* the command lines
Namespaces ==
    { Namespace(None, Some(file), DEFAULT_COLUMN_NUMBER, "hash", TRUE) : file \in Files }
    \cup { Namespace(None, Some(file), column_number, format, FALSE) :
               file \in {f \in Files : Len(f.lines) <= 2},
               column_number \in {0, 1, 3}, format \in {"json", "text"} }
    \cup { Namespace(Some(mb_string), None, DEFAULT_COLUMN_NUMBER, format, quiet) :
               mb_string \in RecordStrings, format \in {"", "json", "text", "hash"},
               quiet \in BOOLEAN }
    \cup { Namespace(None, None, DEFAULT_COLUMN_NUMBER, "", FALSE),
           Namespace(Some(Example), Some(NoFile), DEFAULT_COLUMN_NUMBER, "", FALSE) }

\* live instances in the specification with several of them
MaxRecords == 2

\* compute_hash calls recorded per instance
MaxHashCalls == 2

-----------------------------------------------------------------------------
(* State *)

VARIABLES
    heap,       \* the live Meldebestaetigung instances, in creation order
    made,       \* for each instance: how it was created and from which input
    hash_log,   \* for each instance: the outcomes of its compute_hash calls
    ret,        \* the outcome of the last call
    quiet       \* TRUE once warnings.filterwarnings("ignore") has run

vars == <<heap, made, hash_log, ret, quiet>>

NoCall ==
    [op |-> "none", self |-> 0, other |-> 0, arg |-> << >>, raised |-> FALSE, value |-> << >>,
     dict |-> << >>, list |-> << >>, aliased |-> FALSE,
     shown |-> << >>, validation_warnings |-> << >>,
     args |-> [hash |-> FALSE, text |-> FALSE, json |-> FALSE, compact |-> FALSE],
     result |-> [input |-> << >>, success |-> FALSE, output |-> None, error |-> None],
     argv |-> Namespace(None, None, DEFAULT_COLUMN_NUMBER, "", FALSE),
     exit_code |-> 0, stdout |-> << >>, stderr |-> << >>, results |-> << >>]

Init ==
    /\ heap = << >>
    /\ made = << >>
    /\ hash_log = << >>
    /\ ret = NoCall
    /\ quiet = FALSE

\* the effect of a from_string call with outcome r
Returned_from_string(mb_string, r) ==
    /\ heap' = IF r.raised THEN heap ELSE Append(heap, r.instance[1])
    /\ made' = IF r.raised THEN made
               ELSE Append(made, [by |-> "from_string", arg |-> mb_string])
    /\ hash_log' = IF r.raised THEN hash_log ELSE Append(hash_log, << >>)
    /\ ret' = [NoCall EXCEPT
                  !.op = "from_string",
                  !.self = IF r.raised THEN 0 ELSE Len(heap) + 1,
                  !.arg = mb_string,
                  !.raised = r.raised,
                  !.value = r.error,
                  !.shown = r.shown,
                  !.validation_warnings = r.validation_warnings]

\* mb = Meldebestaetigung.from_string(mb_string)
Call_from_string(mb_string, limit) ==
    /\ Len(heap) < limit
    /\ Returned_from_string(mb_string, from_string(mb_string, quiet))
    /\ UNCHANGED quiet

\* mb = Meldebestaetigung(*parts): the dataclass constructor, without from_string
Call_init(parts, limit) ==
    /\ Len(heap) < limit
    /\ heap' = Append(heap, Meldebestaetigung(parts))
    /\ made' = Append(made, [by |-> "__init__", arg |-> join("&", parts)])
    /\ hash_log' = Append(hash_log, << >>)
    /\ ret' = [NoCall EXCEPT !.op = "__init__", !.self = Len(heap) + 1]
    /\ UNCHANGED quiet

\* heap[self].to_mb_string()
Call_to_mb_string(self) ==
    /\ self \in DOMAIN heap
    /\ ret' = [NoCall EXCEPT !.op = "to_mb_string", !.self = self,
                             !.value = to_mb_string(heap[self])]
    /\ UNCHANGED <<heap, made, hash_log, quiet>>

Returned_compute_hash(self, r) ==
    /\ ret' = [NoCall EXCEPT !.op = "compute_hash", !.self = self,
                             !.raised = r.raised, !.value = r.value]
    /\ hash_log' = [hash_log EXCEPT ![self] = Append(@, r)]

\* heap[self].compute_hash()
Call_compute_hash(self) ==
    /\ self \in DOMAIN heap
    /\ Len(hash_log[self]) < MaxHashCalls
    /\ Returned_compute_hash(self, compute_hash(heap[self]))
    /\ UNCHANGED <<heap, made, quiet>>

\* heap[self].to_dict()
Call_to_dict(self) ==
    /\ self \in DOMAIN heap
    /\ ret' = [NoCall EXCEPT !.op = "to_dict", !.self = self,
                             !.raised = to_dict(heap[self]).raised,
                             !.value = IF to_dict(heap[self]).raised
                                       THEN to_dict(heap[self]).value ELSE << >>,
                             !.dict = to_dict(heap[self]).items]
    /\ UNCHANGED <<heap, made, hash_log, quiet>>

\* heap[self].to_json(indent=indent)
Call_to_json(self, indent) ==
    /\ self \in DOMAIN heap
    /\ ret' = [NoCall EXCEPT !.op = "to_json", !.self = self,
                             !.raised = to_json(heap[self], indent).raised,
                             !.value = to_json(heap[self], indent).value]
    /\ UNCHANGED <<heap, made, hash_log, quiet>>

\* repr(heap[self])
Call_repr(self) ==
    /\ self \in DOMAIN heap
    /\ ret' = [NoCall EXCEPT !.op = "__repr__", !.self = self,
                             !.raised = __repr__(heap[self]).raised,
                             !.value = __repr__(heap[self]).value]
    /\ UNCHANGED <<heap, made, hash_log, quiet>>

\* found = heap[self].warnings
Call_warnings(self) ==
    /\ self \in DOMAIN heap
    /\ ret' = [NoCall EXCEPT !.op = "warnings", !.self = self,
                             !.list = warnings(heap[self]).list,
                             !.aliased = warnings(heap[self]).aliased]
    /\ UNCHANGED <<heap, made, hash_log, quiet>>

\* found.append(item): the caller changes the list the property returned,
\* which changes the instance if that list is the instance's own
Caller_append(item) ==
    /\ ret.op = "warnings"
    /\ ret' = [ret EXCEPT !.op = "list.append", !.list = Append(@, item)]
    /\ heap' = IF ret.aliased
               THEN [heap EXCEPT ![ret.self]._warnings = Append(@, item)]
               ELSE heap
    /\ UNCHANGED <<made, hash_log, quiet>>

\* main: if args.quiet: warnings.filterwarnings("ignore")
Call_filterwarnings ==
    /\ ~quiet
    /\ quiet' = TRUE
    /\ ret' = [NoCall EXCEPT !.op = "filterwarnings"]
    /\ UNCHANGED <<heap, made, hash_log>>

\* the instances go out of scope
Release ==
    /\ Len(heap) > 0
    /\ heap' = << >>
    /\ made' = << >>
    /\ hash_log' = << >>
    /\ ret' = NoCall
    /\ UNCHANGED quiet

\* one live instance at a time, every input
Next ==
    \/ \E mb_string \in Inputs : Call_from_string(mb_string, 1)
    \/ \E parts \in DirectPartLists : Call_init(parts, 1)
    \/ \E self \in DOMAIN heap : Call_to_mb_string(self)
    \/ \E self \in DOMAIN heap : Call_compute_hash(self)
    \/ Call_filterwarnings
    \/ Release

Spec == Init /\ [][Next]_vars

\* one instance from from_string, every input, and the calls of its methods
NextCalls ==
    \/ \E mb_string \in Inputs : Call_from_string(mb_string, 1)
    \/ \E self \in DOMAIN heap : Call_to_mb_string(self)
    \/ \E self \in DOMAIN heap : Call_compute_hash(self)
    \/ \E self \in DOMAIN heap : Call_to_dict(self)
    \/ \E self \in DOMAIN heap, indent \in {None, Some(2)} : Call_to_json(self, indent)
    \/ \E self \in DOMAIN heap : Call_repr(self)
    \/ \E self \in DOMAIN heap : Call_warnings(self)
    \/ Caller_append(<<"x">>)

SpecCalls == Init /\ [][NextCalls]_vars

\* heap[self] == heap[other]
Call_eq(self, other) ==
    /\ self \in DOMAIN heap
    /\ other \in DOMAIN heap
    /\ ret' = [NoCall EXCEPT !.op = "__eq__", !.self = self, !.other = other,
                             !.value = IF __eq__(heap[self], heap[other])
                                       THEN <<"True">> ELSE <<"False">>]
    /\ UNCHANGED <<heap, made, hash_log, quiet>>

\* several live instances, few inputs
NextInstances ==
    \/ \E mb_string \in SharedInputs : Call_from_string(mb_string, MaxRecords)
    \/ \E parts \in SharedPartLists : Call_init(parts, MaxRecords)
    \/ \E self \in DOMAIN heap : Call_to_mb_string(self)
    \/ \E self \in DOMAIN heap : Call_compute_hash(self)
    \/ \E self \in DOMAIN heap, other \in DOMAIN heap : Call_eq(self, other)
    \/ Call_filterwarnings

SpecInstances == Init /\ [][NextInstances]_vars

\* the effect of a process_..._string call that gave r; calls are made one
\* after the other, each once the result of the one before is taken
Returned_result(op, input, args, r) ==
    /\ ret.op \in {"none", "filterwarnings"}
    /\ ret' = [NoCall EXCEPT !.op = op, !.arg = input, !.args = args,
                             !.result = r.result, !.shown = r.shown]
    /\ UNCHANGED <<heap, made, hash_log, quiet>>

\* result = process_mb_string(mb_string, args); mb does not outlive the call
Call_process_mb_string(mb_string, args) ==
    Returned_result("process_mb_string", mb_string, args,
                    process_mb_string(mb_string, args, quiet))

\* result = process_edifact_string(edifact_string, args)
Call_process_edifact_string(edifact_string, args, envelope_error_is_value_error) ==
    Returned_result("process_edifact_string", edifact_string, args,
                    process_edifact_string(edifact_string, args, quiet,
                                           envelope_error_is_value_error))

\* the caller has printed or stored the result
Take_result ==
    /\ ret.op \in {"process_mb_string", "process_edifact_string"}
    /\ ret' = NoCall
    /\ UNCHANGED <<heap, made, hash_log, quiet>>

\* the two functions of mbcheck.py that turn one input into one result
NextProcess ==
    \/ \E mb_string \in RecordStrings, args \in Args :
           Call_process_mb_string(mb_string, args)
    \/ \E edifact_string \in Envelopes, args \in Args, b \in BOOLEAN :
           Call_process_edifact_string(edifact_string, args, b)
    \/ Take_result
    \/ ret.op = "none" /\ Call_filterwarnings

SpecProcess == Init /\ [][NextProcess]_vars

\* the effect of a run of main that left r
Exited(args, r) ==
    /\ ret' = [NoCall EXCEPT !.op = "main", !.argv = args,
                             !.exit_code = r.exit_code, !.stdout = r.stdout,
                             !.stderr = r.stderr, !.results = r.results]
    /\ quiet' = (quiet \/ (args.quiet /\ r.exit_code # 2))
    /\ UNCHANGED <<heap, made, hash_log>>

\* python mbcheck.py ...: main runs once, in a new process
Call_main(args, envelope_error_is_value_error) ==
    /\ ret.op = "none"
    /\ ~quiet
    /\ Exited(args, main(args, quiet, envelope_error_is_value_error))

NextMain ==
    \E args \in Namespaces, b \in BOOLEAN : Call_main(args, b)

SpecMain == Init /\ [][NextMain]_vars

-----------------------------------------------------------------------------
(* What the claims speak of, stated without the operators of the model *)

Ampersands(s) == {i \in DOMAIN s : s[i] = "&"}

\* the number of '&'-separated parts of s
FieldCount(s) == Cardinality(Ampersands(s)) + 1

\* the position of the k-th '&' of s; 0 and Len(s) + 1 bracket the string
AmpersandAt(s, k) ==
    IF k = 0 THEN 0
    ELSE IF k > Cardinality(Ampersands(s)) THEN Len(s) + 1
    ELSE CHOOSE i \in Ampersands(s) : Cardinality({j \in Ampersands(s) : j <= i}) = k

\* the k-th '&'-separated part of s
RawField(s, k) == SubSeq(s, AmpersandAt(s, k - 1) + 1, AmpersandAt(s, k) - 1)

RawFields(s) == [k \in 1..FieldCount(s) |-> RawField(s, k)]

\* the instance the last call returned or was made on
Self == heap[ret.self]

Returned(op) == ret.op = op /\ ~ret.raised /\ ret.self \in DOMAIN heap

Parsed(i) == made[i].by = "from_string"

\* the first token of each finding of _validate_syntax that names a field
SyntaxHeads ==
    <<"Alphanumerischer Code muss 10 Zeichen haben, hat aber ",
      "Leistungsdatum+Zaehler muss 11 Ziffern haben (JJJJMMTTZZZ): ",
      "Leistungserbringer-ID muss 9 Zeichen haben, hat aber ",
      "Datenknoten-ID muss 9 Zeichen haben, hat aber ",
      "Ungueltiger Meldungstyp '",
      "Ungueltiger Indikationsbereich '",
      "Ungueltige Produktzuordnung '",
      "Ungueltiger Kostentraeger '",
      "Ungueltige Art der Daten '",
      "Ungueltige Art der Sequenzierung '",
      "Ungueltiges QK-Ergebnis '">>

DateHead == "Ungueltiges Leistungsdatum/Zaehler Format: "

CharsHead ==
    "MB String enthaelt ungueltige Zeichen. Erlaubt sind nur: [a-z][A-Z][0-9][&]"

\* the findings of a list whose first token is head
WithHead(findings, head) == SelectSeq(findings, LAMBDA w : w[1] = head)

AllAsciiDigits(s) == \A i \in DOMAIN s : s[i] \in AsciiDigits

AllAlnum(s) == \A i \in DOMAIN s : s[i] \in (AllowedChars \ {"&"})

\* the digits s, 8 of them, are a date of the calendar
IsCalendarDate(s) ==
    /\ DecimalValue(SubSeq(s, 1, 4)) >= 1
    /\ DecimalValue(SubSeq(s, 5, 6)) \in 1..12
    /\ DecimalValue(SubSeq(s, 7, 8)) >= 1
    /\ DecimalValue(SubSeq(s, 7, 8))
           <= DaysInMonth(DecimalValue(SubSeq(s, 1, 4)), DecimalValue(SubSeq(s, 5, 6)))

-----------------------------------------------------------------------------
(* C1 *)

\* C1: to_mb_string of an instance that from_string made of a string s returns
\* s itself, whether or not its fields passed validation.
C1_RoundTrip ==
    (Returned("to_mb_string") /\ Parsed(ret.self)) => ret.value = made[ret.self].arg

\* to_mb_string has run on a parsed instance that carries findings
C1_Witness ==
    /\ Returned("to_mb_string")
    /\ Parsed(ret.self)
    /\ Len(Self._warnings) > 1

(* C2 *)

\* C2: from_string of a string whose number of '&'-separated parts is not 11
\* raises the error that carries that number, creates no instance, and its
\* validation has stopped at the count check: it holds nothing but the count
\* message, preceded at most by the finding on the characters of the string.
C2_WrongCountFails ==
    (ret.op = "from_string" /\ FieldCount(ret.arg) # 11) =>
        /\ ret.raised
        /\ ret.value = <<"MB Format erwartet 11 Felder, aber ">>
                       \o str(FieldCount(ret.arg)) \o <<" gefunden">>
        /\ ret.self = 0
        /\ heap = << >>
        /\ ret.validation_warnings \in
               { <<ret.value>>, << <<CharsHead>>, ret.value >> }

\* from_string has failed on the empty string, which has one part
C2_Witness ==
    /\ ret.op = "from_string"
    /\ ret.arg = << >>
    /\ ret.raised
    /\ ret.value = <<"MB Format erwartet 11 Felder, aber ", "1", " gefunden">>

(* C3 *)

Codes ==
    << {}, {}, {}, {},
       {"0", "1", "2", "3", "9"}, {"O", "R", "H"}, {"9"}, {"1", "2", "3", "4"},
       {"C", "G"}, {"0", "1", "2", "3", "4"}, {"0", "1"} >>

\* the width of each field
Widths == <<10, 11, 9, 9, 1, 1, 1, 1, 1, 1, 1>>

IsCode(k, f) == Len(f) = 1 /\ f[1] \in Codes[k]

DateOf(s) ==
    [year  |-> DecimalValue(SubSeq(s, 1, 4)),
     month |-> DecimalValue(SubSeq(s, 5, 6)),
     day   |-> DecimalValue(SubSeq(s, 7, 8))]

\* field 2 is 11 ASCII digits whose first 8 are a date of the calendar
WellFormedComposite(f) ==
    Len(f) = 11 /\ AllAsciiDigits(f) /\ IsCalendarDate(SubSeq(f, 1, 8))

\* C4, for a field 2 of ASCII letters and digits: on an instance made by
\* from_string the date and the counter are both unset when field 2 is not 11
\* ASCII digits that begin with a calendar date, and otherwise both set, to
\* the date of the first 8 digits and to the value of the last 3.
C4_DerivedBothOrNeither ==
    \A i \in DOMAIN heap :
        (Parsed(i) /\ AllAlnum(RawField(made[i].arg, 2))) =>
            IF WellFormedComposite(RawField(made[i].arg, 2))
            THEN /\ heap[i]._leistungsdatum
                        = Some(DateOf(RawField(made[i].arg, 2)))
                 /\ heap[i]._zaehler
                        = Some(DecimalValue(SubSeq(RawField(made[i].arg, 2), 9, 11)))
            ELSE /\ heap[i]._leistungsdatum = None
                 /\ heap[i]._zaehler = None

(* C5 *)

\* every field of s but the second is as the field table wants it
OthersValid(s) ==
    /\ FieldCount(s) = 11
    /\ \A k \in {1, 3, 4} : Len(RawField(s, k)) = Widths[k] /\ AllAlnum(RawField(s, k))
    /\ \A k \in 5..11 : IsCode(k, RawField(s, k))

DateFinding(f) == <<DateHead>> \o f

DigitsFinding(f) == <<SyntaxHeads[2]>> \o f

\* C5 as the specification has it: a field 2 of 11 ASCII letters and digits
\* with a letter among them, or of 11 digits that begin with no calendar date,
\* gives exactly one finding when no other field has a defect.
C5_ExactlyOneFinding ==
    \A i \in DOMAIN heap :
        ( /\ Parsed(i)
          /\ OthersValid(made[i].arg)
          /\ Len(RawField(made[i].arg, 2)) = 11
          /\ AllAlnum(RawField(made[i].arg, 2))
          /\ ~WellFormedComposite(RawField(made[i].arg, 2)) )
        => Len(heap[i]._warnings) = 1

\* C5, amended: with no defect in another field, 11 ASCII digits that begin
\* with no calendar date give exactly the finding of the constructor, and 11
\* ASCII letters and digits with a letter among them give exactly two
\* findings, that of the constructor and then that of the syntax check.
C5_OneOrTwoFindings ==
    \A i \in DOMAIN heap :
        ( /\ Parsed(i)
          /\ OthersValid(made[i].arg)
          /\ Len(RawField(made[i].arg, 2)) = 11
          /\ AllAlnum(RawField(made[i].arg, 2))
          /\ ~WellFormedComposite(RawField(made[i].arg, 2)) )
        => heap[i]._warnings =
               IF AllAsciiDigits(RawField(made[i].arg, 2))
               THEN <<DateFinding(RawField(made[i].arg, 2))>>
               ELSE <<DateFinding(RawField(made[i].arg, 2)),
                      DigitsFinding(RawField(made[i].arg, 2))>>

\* "2024070X001" in an otherwise valid input has been parsed: two findings
C5_Witness ==
    /\ Returned("from_string")
    /\ OthersValid(ret.arg)
    /\ RawField(ret.arg, 2) = <<"2", "0", "2", "4", "0", "7", "0", "X", "0", "0", "1">>
    /\ Len(Self._warnings) = 2

(* C6 *)

\* C6: from_string of an 11-field string whose field 5 is no report type
\* returns an instance that keeps the code as it came, with exactly one
\* finding on field 5, which shows the code and then the codes 0, 1, 2, 3, 9.
C6_InvalidReportType ==
    (ret.op = "from_string" /\ FieldCount(ret.arg) = 11
        /\ ~IsCode(5, RawField(ret.arg, 5))) =>
        /\ ~ret.raised
        /\ ret.self \in DOMAIN heap
        /\ Self.meldungstyp = RawField(ret.arg, 5)
        /\ WithHead(Self._warnings, SyntaxHeads[5]) =
               << <<"Ungueltiger Meldungstyp '">> \o RawField(ret.arg, 5)
                  \o <<"'. Erlaubt: ", "[", "'", "0", "'", ", ", "'", "1", "'", ", ",
                       "'", "2", "'", ", ", "'", "3", "'", ", ", "'", "9", "'", "]">> >>

\* the code "AB" in field 5 has been parsed
C6_Witness ==
    /\ Returned("from_string")
    /\ RawField(ret.arg, 5) = <<"A", "B">>
    /\ Self.meldungstyp = <<"A", "B">>

(* C7 *)

\* the characters of field k are of the class of the field
ClassOk(k, f) ==
    IF k \in {1, 3, 4} THEN AllAlnum(f)
    ELSE IF k \in {6, 9} THEN \A i \in DOMAIN f : f[i] \in Range(UpperSeq) \cup Range(LowerSeq)
    ELSE AllAsciiDigits(f)

\* the findings that are about field k: those that name it, and the finding
\* on the characters of the string when one of them is in the field
FindingsAbout(w, k, f) ==
    Len(WithHead(w, SyntaxHeads[k]))
    + (IF k = 2 THEN Len(WithHead(w, DateHead)) ELSE 0)
    + (IF AllAlnum(f) THEN 0 ELSE Len(WithHead(w, CharsHead)))

LengthHeads == {SyntaxHeads[k] : k \in 1..4}

\* C7 as the specification has it: a field that violates its length rule and
\* its character class has a finding for each, and an empty field has a
\* finding on its length.
C7_OneFindingPerRule ==
    \A i \in DOMAIN heap : \A k \in 1..11 :
        Parsed(i) =>
            /\ (Len(RawField(made[i].arg, k)) # Widths[k]
                    /\ ~ClassOk(k, RawField(made[i].arg, k)))
               => FindingsAbout(heap[i]._warnings, k, RawField(made[i].arg, k)) >= 2
            /\ RawField(made[i].arg, k) = << >>
               => \E n \in DOMAIN heap[i]._warnings :
                      /\ heap[i]._warnings[n][1] = SyntaxHeads[k]
                      /\ heap[i]._warnings[n][1] \in LengthHeads

\* the one check the syntax validation makes of field k fails
FailsItsCheck(k, f) ==
    IF k \in {1, 3, 4} THEN Len(f) # Widths[k]
    ELSE IF k = 2 THEN Len(f) # 11 \/ \E i \in DOMAIN f : f[i] \notin UnicodeDigits
    ELSE ~IsCode(k, f)

\* the finding of the syntax validation on an empty field k
EmptyFieldFinding(k) ==
    IF k \in {1, 3, 4} THEN <<SyntaxHeads[k], "0">>
    ELSE IF k = 2 THEN <<SyntaxHeads[k]>>
    ELSE <<SyntaxHeads[k], "'. Erlaubt: ", "[">>

\* C7, amended: the syntax validation makes one check of each field (the
\* length of fields 1, 3 and 4, length and digits together of field 2, the
\* table of fields 5 to 11) and appends one finding for a field that fails
\* it, however many rules the field violates; besides these there is at most
\* one finding on the characters of the string and one of the constructor on
\* field 2.  An empty field 1, 3 or 4 is reported with its length 0, an empty
\* field 2 by the finding on its 11 digits, an empty coded field as the
\* invalid code ''.
C7_OneFindingPerField ==
    \A i \in DOMAIN heap :
        Parsed(i) =>
            /\ \A k \in 1..11 :
                   /\ Len(WithHead(heap[i]._warnings, SyntaxHeads[k]))
                          = IF FailsItsCheck(k, RawField(made[i].arg, k)) THEN 1 ELSE 0
                   /\ RawField(made[i].arg, k) = << >>
                      => SubSeq(WithHead(heap[i]._warnings, SyntaxHeads[k])[1], 1,
                                Len(EmptyFieldFinding(k))) = EmptyFieldFinding(k)
            /\ Len(WithHead(heap[i]._warnings, CharsHead)) <= 1
            /\ Len(WithHead(heap[i]._warnings, DateHead)) <= 1
            /\ \A n \in DOMAIN heap[i]._warnings :
                   heap[i]._warnings[n][1]
                       \in Range(SyntaxHeads) \cup {CharsHead, DateHead}

\* field 2 is "2024X", too short and with a letter, and has the one finding
C7_Witness ==
    /\ Returned("from_string")
    /\ RawField(ret.arg, 2) = <<"2", "0", "2", "4", "X">>
    /\ WithHead(Self._warnings, SyntaxHeads[2]) = Self._warnings
    /\ Len(Self._warnings) = 1

(* C8 *)

\* the place of a finding in the order of the fields: 0 for the finding on
\* the characters of the string, k for one on field k
FieldRank(w) ==
    IF w[1] = CharsHead THEN 0
    ELSE IF w[1] = DateHead THEN 2
    ELSE CHOOSE k \in 1..11 : SyntaxHeads[k] = w[1]

\* the place of a finding in the order the code appends them: the finding of
\* the constructor, the finding on the characters, then the fields
AppendRank(w) ==
    IF w[1] = DateHead THEN 0
    ELSE IF w[1] = CharsHead THEN 1
    ELSE 1 + CHOOSE k \in 1..11 : SyntaxHeads[k] = w[1]

\* C8 as the specification has it: the finding on the characters of the
\* string comes first, then the findings on the fields in ascending order of
\* the fields.
C8_AscendingFieldOrder ==
    \A i \in DOMAIN heap :
        Parsed(i) =>
            \A n, m \in DOMAIN heap[i]._warnings :
                n < m => FieldRank(heap[i]._warnings[n]) <= FieldRank(heap[i]._warnings[m])

\* C8, amended: the finding of the constructor on the date and counter, if
\* any, comes first, then the finding on the characters of the string, if
\* any, then the findings of the syntax check in ascending order of the
\* fields; two instances parsed from the same input have the same findings in
\* the same order.
C8_ConstructorFindingFirst ==
    \A i \in DOMAIN heap :
        Parsed(i) =>
            /\ \A n, m \in DOMAIN heap[i]._warnings :
                   n < m => AppendRank(heap[i]._warnings[n])
                                < AppendRank(heap[i]._warnings[m])
            /\ \A j \in DOMAIN heap :
                   (Parsed(j) /\ made[j].arg = made[i].arg)
                       => heap[j]._warnings = heap[i]._warnings

\* one input has been parsed twice with findings of the constructor, on the
\* characters, and on fields 1, 2 and 5
C8_Witness ==
    /\ Len(heap) >= 2
    /\ Parsed(1) /\ Parsed(2)
    /\ made[1].arg = made[2].arg
    /\ [n \in DOMAIN heap[2]._warnings |-> AppendRank(heap[2]._warnings[n])]
           = <<0, 1, 2, 3, 6>>

(* C9 *)

\* C9: two instances with the same 11 fields have had the same outcome of
\* every compute_hash call made on them so far, whenever and in whatever
\* order the calls were made and whatever their findings are, and when both
\* were made by from_string they have the same findings; so the calls on one
\* instance all had the same outcome.
C9_HashOfFieldsOnly ==
    \A i, j \in DOMAIN heap :
        Fields(heap[i]) = Fields(heap[j]) =>
            /\ \A a \in DOMAIN hash_log[i] : \A b \in DOMAIN hash_log[j] :
                   hash_log[i][a] = hash_log[j][b]
            /\ (Parsed(i) /\ Parsed(j)) => heap[i]._warnings = heap[j]._warnings

\* two instances of the same fields and different findings, one hashed twice
\* and the other once, the older one last
C9_Witness ==
    \E i, j \in DOMAIN heap :
        /\ i < j
        /\ Fields(heap[i]) = Fields(heap[j])
        /\ heap[i]._warnings # heap[j]._warnings
        /\ Len(hash_log[j]) = 2
        /\ Len(hash_log[i]) = 1
        /\ ~hash_log[i][1].raised
        /\ ret.op = "compute_hash" /\ ret.self = i

(* C10 *)

\* text has sub as a contiguous part
Contains(text, sub) ==
    \E i \in 0..(Len(text) - Len(sub)) : SubSeq(text, i + 1, i + Len(sub)) = sub

\* the start of a member of a JSON object: "key":
Member(key) == <<"\"", key, "\"", ": ">>

\* a process_edifact_string call has returned a JSON output
ReturnedJson ==
    /\ ret.op = "process_edifact_string"
    /\ ~ret.args.hash /\ ~ret.args.text
    /\ ret.result.success

\* the envelope of the last call: whether it has the framing, the record
\* embedded in it and the hash token embedded in it, if any
Framed == Len(ret.arg) > 0 /\ ret.arg[1] = EnvelopeMark

EmbeddedRecord == split(Tail(ret.arg), HashMark)[1]

EmbeddedHash ==
    IF Len(split(Tail(ret.arg), HashMark)) > 1
    THEN Some(split(Tail(ret.arg), HashMark)[2]) ELSE None

\* the SHA-256 hash of the embedded record as it stands in the envelope
RecomputedHash ==
    sha256_hexdigest([i \in DOMAIN EmbeddedRecord |-> Ord(EmbeddedRecord[i])])

\* the embedded record has 11 fields of ASCII characters
Exportable ==
    /\ FieldCount(EmbeddedRecord) = 11
    /\ \A i \in DOMAIN EmbeddedRecord : Ord(EmbeddedRecord[i]) <= 127

CsvRun == ret.op = "main" /\ ret.argv.csv # None /\ ret.exit_code # 2

\* the lines of the file after the header, if one was found
DataRows ==
    IF ret.argv.csv[1].has_header THEN Tail(ret.argv.csv[1].lines)
    ELSE ret.argv.csv[1].lines

\* the column of the MB strings: the one named by --column if a header was
\* found that has it, else the one numbered by --column-number; 0 if a header
\* was found that has neither
MbColumn ==
    IF ~ret.argv.csv[1].has_header THEN ret.argv.column_number
    ELSE IF LastIndex(ret.argv.csv[1].lines[1], ret.argv.column) > 0
    THEN LastIndex(ret.argv.csv[1].lines[1], ret.argv.column)
    ELSE IF ret.argv.column_number <= Len(ret.argv.csv[1].lines[1])
    THEN ret.argv.column_number
    ELSE 0

\* the file is there and has the column of the MB strings
Processable == ret.argv.csv[1].exists /\ MbColumn > 0

\* a row with an input: its cell in the column of the MB strings is not blank
HasInput(row) == Len(row) >= MbColumn /\ strip(row[MbColumn]) # << >>

\* the run got as far as the summary line
Completed ==
    /\ Len(ret.stderr) > 0
    /\ ret.stderr[Len(ret.stderr)][1] = "Verarbeitet: "

\* C11: in batch mode every row with an input has exactly one result, the
\* results are in the order of the rows, and each is what its input gives when
\* it is processed alone, whatever the other rows are; the exit status is
\* non-zero exactly when a row failed or the file could not be processed to
\* the end.
C11_EveryRowOneResult ==
    CsvRun =>
        /\ Processable =>
               /\ Len(ret.results) = Len(SelectSeq(DataRows, HasInput))
               /\ \A i \in DOMAIN ret.results :
                      /\ ret.results[i].input
                             = strip(SelectSeq(DataRows, HasInput)[i][MbColumn])
                      /\ ret.results[i].success
                             = process_edifact_string(ret.results[i].input, ret.argv,
                                                      TRUE, TRUE).result.success
                      /\ ret.results[i].output
                             = process_edifact_string(ret.results[i].input, ret.argv,
                                                      TRUE, TRUE).result.output
        /\ ret.exit_code # 0
               <=> (~Completed \/ \E i \in DOMAIN ret.results : ~ret.results[i].success)

(* C12 *)

\* C12: findings never affect equality: two instances compare equal exactly
\* when their 11 fields are the same, whatever their lists of findings hold and
\* however they were made (by from_string or by the constructor).
C12_EqualByFields ==
    ret.op = "__eq__" =>
        ((ret.value = <<"True">>)
             <=> (\A k \in 1..11 : heap[ret.self][FieldNames[k]]
                                       = heap[ret.other][FieldNames[k]]))

(* C13 *)

\* the lines of the text the last call returned
ReturnedLines == Range(split(ret.value, "\n"))

\* C13: the text rendering of a parsed instance never fails; with the date set
\* it has the line of the formatted date and the line of the counter as 3
\* digits, and with the date unset it has the line of field 2 as received.
C13_TextRendering ==
    (ret.op = "__repr__" /\ Parsed(ret.self)) =>
        /\ ~ret.raised
        /\ Self._leistungsdatum # None =>
               /\ <<"Leistungsdatum:           ">>
                      \o strftime(Self._leistungsdatum[1], <<"%d", ".", "%m", ".", "%Y">>)
                  \in ReturnedLines
               /\ \E line \in ReturnedLines :
                      /\ Len(line) = 4
                      /\ line[1] = "Zaehler:                   "
                      /\ AllAsciiDigits(SubSeq(line, 2, 4))
        /\ Self._leistungsdatum = None =>
               <<"Leistungsdatum+Zaehler:    ">> \o Self.leistungsdatum_zaehler
                   \in ReturnedLines

(* C14 *)

\* C14: no call made after from_string has returned an instance (to_mb_string,
\* compute_hash, to_dict, to_json, __repr__, warnings, or the caller appending
\* to the list that warnings returned) changes the instance, that is its 11
\* fields, its date and counter and its findings; and every warnings call
\* returns the findings of the instance, also after such an append.
C14_CallsLeaveInstance ==
    /\ [][\A i \in DOMAIN heap :
              (Parsed(i) /\ i \in DOMAIN heap') => heap'[i] = heap[i]]_vars
    /\ [](ret.op = "warnings" => ret.list = heap[ret.self]._warnings)

\* the caller has appended to the list that warnings returned for a parsed
\* instance with findings, and the instance still has its findings only
C14_Witness ==
    /\ ret.op = "list.append"
    /\ Parsed(ret.self)
    /\ heap[ret.self]._warnings # << >>
    /\ ret.list = Append(heap[ret.self]._warnings, <<"x">>)

=============================================================================
